---------------------------- MODULE Spec2Model ----------------------------
(***************************************************************************)
(* A model of ajustador's file-versioning helpers, morphology rewriting,   *)
(* candidate selection and baseline/steady features.                       *)
(*                                                                         *)
(* Strings are sequences of one-character strings, so that the regular     *)
(* expressions and str methods of the code are computed character by       *)
(* character.  A raised exception is the value Raise(<exception name>).    *)
(***************************************************************************)
EXTENDS Integers, Sequences, FiniteSets, TLC

VARIABLES
    \* file-name helpers (process_common.py)
    file_,          \* the name handed to the helpers on construction
    base, extn, ver,\* how file_ was put together: base, extension, version (0: none)
    neuron_type, fit_number,
    cur,            \* the result of the get_file_name_with_version calls so far
    applied,        \* how many times get_file_name_with_version was applied
    built,          \* the result of check_version_build_file_path(file_, ...)
    \* find_best / fit_sort (fitnesses.py)
    fitness,        \* fitness(sim, measurement) for each sim of the group, in order
    found,          \* find_best's result: the index of the returned candidate (0: not run)
    sorted,         \* fit_sort's result: the candidates' indices in the returned order
    \* find_multi_best (fitnesses.py)
    group,          \* fitness(sim, measurement, full=1) for each sim of the group
    similarity,     \* the similarity argument, as <<numerator, denominator>>
    pos,            \* how many candidates the for loop has processed
    best,           \* the accumulated candidates (indices into group)
    multi,          \* find_multi_best's outcome: NotRun, Returned(<indices>) or Raised
    \* morph_morph_file (basic_simulation.py)
    morph_text,     \* t: what open(morph_file).read() returns
    overrides,      \* the RA, RM and CM arguments (None: not given)
    written,        \* what new_file.write(t) wrote, NotWritten before the call
    \* Baseline (features.py)
    wave,           \* the trace: a sequence of samples [x |-> time, y |-> amplitude]
    baseline_before, baseline_after,
    steady_after, steady_before, steady_cutoff,
    baseline,       \* Baseline.baseline, NotComputed before the first read
    steady,         \* Baseline.steady, NotComputed before the first read
    \* process_modification (process_common.py, process_morph.py)
    fs,             \* the files on disk: path |-> content
    runs,           \* how many times process_modification was called
    fs_before,         \* the files on disk when the last call started
    run,            \* the last call: its sources, what it opened, how it ended
    \* _fit_falling_curve (features.py)
    ccut_size,      \* ccut.size: the number of samples of the falling curve
    falls,          \* (steady-baseline).negative
    falling_curve_fit,  \* _fit_falling_curve's outcome, NotFitted before the call
    \* _select (fitnesses.py)
    sel_a,          \* a: the simulated traces [id, injection], injection in units of 1e-13 A
    sel_b,          \* b: the measurement traces
    which,          \* the mask over b: [given |-> FALSE] for None
    selected,       \* _select's result, NotSelected before the call
    \* sub_mes_dev (fitnesses.py)
    reca, recb,     \* the operands: one value-with-uncertainty or a record array
    min_dev,        \* the noise floor, in the unit of the spreads
    optimized,      \* whether assert statements are compiled out (python -O)
    difference,     \* sub_mes_dev's outcome, NotSubtracted before the call
    \* the per-axis fitness functions (fitnesses.py)
    fit_sim,        \* sim: traces [injection, spike_count, feature]
    fit_meas,       \* measurement: traces [injection, spike_count, feature]
    evaluated,      \* the fitness function that was called, "none" before the call
    axis_score,     \* what it returned
    \* update_morph_file_name (process_morph.py)
    line,           \* the line of the conductance file
    upd_neuron_type,    \* the neuron_type argument
    new_file_name,  \* the file_name argument
    updated,        \* the returned line, NotUpdated before the call
    \* simple_combined_fitness (fitnesses.py)
    axis_scores,    \* what each of the eleven fitness functions returns, in order
    full,           \* the full argument
    combined,       \* simple_combined_fitness's result, NotCombined before the call
    \* clone_and_change_morph_file (process_morph.py)
    clone_dir,      \* the model_path argument
    clone_files,    \* the files on disk before the call
    clone_ntype,    \* the neuron_type argument
    morph_clone,    \* the call's outcome, NotCloned before the call
    \* find_nonsimilar (fitnesses.py)
    ns_params,      \* params: the parameter vector of each candidate of the group
    ns_scores,      \* scores: the score vector of each candidate
    ns_similarity,  \* the similarity argument, as <<numerator, denominator>>
    ns_order,       \* order: the candidates' indices by ascending total
    nonsimilar      \* find_nonsimilar's result: the candidates returned, in order

nameVars == <<file_, base, extn, ver, neuron_type, fit_number, cur, applied, built>>
bestVars == <<fitness, found, sorted>>
multiVars == <<group, similarity, pos, best, multi>>

morphVars == <<morph_text, overrides, written>>

featureVars == <<wave, baseline_before, baseline_after, steady_after, steady_before,
                 steady_cutoff, baseline, steady>>

fileVars == <<fs, runs, fs_before, run>>

fitVars == <<ccut_size, falls, falling_curve_fit>>

selVars == <<sel_a, sel_b, which, selected>>

subVars == <<reca, recb, min_dev, optimized, difference>>

axisVars == <<fit_sim, fit_meas, evaluated, axis_score>>

updVars == <<line, upd_neuron_type, new_file_name, updated>>

combVars == <<axis_scores, full, combined>>

cloneVars == <<clone_dir, clone_files, clone_ntype, morph_clone>>

nsVars == <<ns_params, ns_scores, ns_similarity, ns_order, nonsimilar>>

vars == <<nameVars, bestVars, multiVars, morphVars, featureVars, fileVars,
         fitVars,
         selVars,
         subVars,
         axisVars,
         updVars,
         combVars,
         cloneVars,
         nsVars>>

---------------------------------------------------------------------------
(* Bounds *)
MaxApply == 3       \* applications of get_file_name_with_version per name
MaxVer == 2         \* the largest version number a constructed name starts with
MaxGroup == 3       \* candidates in a group
MaxText == 5        \* symbols in a morphology text
MaxOutliers == 2    \* samples of a trace that are off its constant level
MaxRuns == 2        \* calls of process_modification over one model directory
MaxSamples == 6     \* samples of a falling curve
MaxTraces == 2      \* traces of a collection handed to _select
MaxRecs == 2        \* elements of a record array handed to sub_mes_dev
MaxFitTraces == 2   \* traces of a collection handed to a fitness function
MaxLine == 5        \* pieces a line of the conductance file is made of
MaxScore == 3       \* the largest per-axis score handed to simple_combined_fitness
MaxCandidates == 3  \* candidates of a group handed to find_nonsimilar

---------------------------------------------------------------------------
(* Strings *)

Raise(e) == <<"raise", e>>
IsRaise(x) == Len(x) = 2 /\ x[1] = "raise"

DigitChars == <<"0", "1", "2", "3", "4", "5", "6", "7", "8", "9">>
IsDigit(c) == \E d \in 1..10 : DigitChars[d] = c
DigitVal(c) == (CHOOSE d \in 1..10 : DigitChars[d] = c) - 1

\* str(n) / '{}'.format(n) of a non-negative int
RECURSIVE IntToStr(_)
IntToStr(n) ==
    IF n < 10 THEN <<DigitChars[n + 1]>>
    ELSE IntToStr(n \div 10) \o <<DigitChars[(n % 10) + 1]>>

\* int(s) of a string of digits
RECURSIVE StrToInt(_)
StrToInt(s) ==
    IF Len(s) = 0 THEN 0
    ELSE 10 * StrToInt(SubSeq(s, 1, Len(s) - 1)) + DigitVal(s[Len(s)])

AllDigits(s) == \A i \in 1..Len(s) : IsDigit(s[i])

EndsWith(s, suf) ==
    /\ Len(s) >= Len(suf)
    /\ SubSeq(s, Len(s) - Len(suf) + 1, Len(s)) = suf

\* The start of the match of  _V(\d+)<tail>$  in s, where <tail> is tailLen
\* characters long and already known to match; 0 when there is no match.
\* With minDigits = 0 this is  _V\d*<tail>$.  The match is anchored at the
\* end, so the digits are the whole stretch between "_V" and the tail.
VersionMatchStart(s, tailLen, minDigits) ==
    LET ends == Len(s) - tailLen
        starts == {i \in 1..(ends - 1) :
                      /\ s[i] = "_" /\ s[i + 1] = "V"
                      /\ ends - (i + 1) >= minDigits
                      /\ AllDigits(SubSeq(s, i + 2, ends))}
    IN IF starts = {} THEN 0
       ELSE CHOOSE i \in starts : \A j \in starts : i <= j

---------------------------------------------------------------------------
(* process_common.py *)

\* r'_V(\d+).py$' : "." is any character, "py" the last two
PyMatchStart(s) ==
    IF Len(s) >= 3 /\ s[Len(s) - 1] = "p" /\ s[Len(s)] = "y"
    THEN VersionMatchStart(s, 3, 1) ELSE 0

\* r'_V\d+.p$' : "." is any character, "p" the last one
PMatchStart(s) ==
    IF Len(s) >= 2 /\ s[Len(s)] = "p"
    THEN VersionMatchStart(s, 2, 1) ELSE 0

\* re.search(p_, file_).group(1): the pattern p_ has no group
PGroup1(s) == Raise("IndexError")

get_file_name_with_version(f) ==
    IF IsRaise(f) THEN f
    ELSE IF EndsWith(f, <<".", "p", "y">>)
    THEN IF PyMatchStart(f) # 0
         THEN LET i == PyMatchStart(f)
                  v_num == StrToInt(SubSeq(f, i + 2, Len(f) - 3)) + 1
              IN SubSeq(f, 1, i - 1) \o <<"_", "V">> \o IntToStr(v_num)
                   \o <<".", "p", "y">>
         \* re.sub(r'.py$', '_V1.py', file_)
         ELSE SubSeq(f, 1, Len(f) - 3) \o <<"_", "V", "1", ".", "p", "y">>
    ELSE IF PMatchStart(f) # 0
         THEN PGroup1(f)
         \* re.sub(r'.p$', '_V1.p', file_): no match leaves file_ as it is
         ELSE IF Len(f) >= 2 /\ f[Len(f)] = "p"
              THEN SubSeq(f, 1, Len(f) - 2) \o <<"_", "V", "1", ".", "p">>
              ELSE f

\* str.rpartition('.'): <<head, sep, tail>> around the last "."
RPartitionDot(s) ==
    LET dots == {i \in 1..Len(s) : s[i] = "."}
    IN IF dots = {} THEN <<<< >>, << >>, s>>
       ELSE LET i == CHOOSE k \in dots : \A j \in dots : j <= k
            IN <<SubSeq(s, 1, i - 1), <<".">>, SubSeq(s, i + 1, Len(s))>>

\* str.strip(chars): drops, at both ends, every character that is in chars
RECURSIVE LStrip(_, _)
LStrip(s, chars) ==
    IF Len(s) > 0 /\ s[1] \in chars THEN LStrip(Tail(s), chars) ELSE s

RECURSIVE RStrip(_, _)
RStrip(s, chars) ==
    IF Len(s) > 0 /\ s[Len(s)] \in chars
    THEN RStrip(SubSeq(s, 1, Len(s) - 1), chars) ELSE s

Strip(s, chars) == RStrip(LStrip(s, chars), chars)

CharsOf(s) == {s[i] : i \in 1..Len(s)}

\* '_'.join(parts)
RECURSIVE JoinUnderscore(_)
JoinUnderscore(parts) ==
    IF Len(parts) = 1 THEN parts[1]
    ELSE parts[1] \o <<"_">> \o JoinUnderscore(Tail(parts))

check_version_build_file_path(f, ntype, fit) ==
    LET parts == RPartitionDot(f)
        abs_file_name == parts[1]
        sep == parts[2]
        ext == parts[3]
        \* re.search('_V\d*$', abs_file_name)
        m == VersionMatchStart(abs_file_name, 0, 0)
    IN IF m # 0
       THEN LET post_fix == SubSeq(abs_file_name, m + 1, Len(abs_file_name))
                stripped == Strip(abs_file_name, {"_"} \cup CharsOf(post_fix))
            IN JoinUnderscore(<<stripped, ntype, IntToStr(fit), post_fix>>)
                 \o sep \o ext
       ELSE JoinUnderscore(<<abs_file_name, ntype, IntToStr(fit)>>) \o sep \o ext

---------------------------------------------------------------------------
(* File names: the helpers applied to constructed names *)

Bases == { <<"m">>, <<"c", "1">>, <<"V", "1", "m">>, <<"m", "_">>, <<"_", "m">>,
           <<"m", ".", "x">> }
Extensions == { <<"p", "y">>, <<"p">> }
NeuronTypes == { <<"D", "1">>, <<"D", "2">> }
FitNumbers == {1, 3}
\* the versions a constructed name starts with; 9 and 99 carry into a new digit
StartVersions == (0..MaxVer) \cup {9, 99}

VersionSuffix(n) == IF n = 0 THEN << >> ELSE <<"_", "V">> \o IntToStr(n)

\* base_V<n>.ext, or base.ext for n = 0
VersionedName(b, n, e) == b \o VersionSuffix(n) \o <<".">> \o e

\* base_<neuron_type>_<fit_number>[_V<n>].ext
BuiltName(b, ntype, fit, n, e) ==
    b \o <<"_">> \o ntype \o <<"_">> \o IntToStr(fit) \o VersionSuffix(n)
      \o <<".">> \o e

NamesInit ==
    /\ base \in Bases
    /\ extn \in Extensions
    /\ ver \in StartVersions
    /\ neuron_type \in NeuronTypes
    /\ fit_number \in FitNumbers
    /\ file_ = VersionedName(base, ver, extn)
    /\ cur = file_
    /\ applied = 0
    /\ built = << >>

\* cur = get_file_name_with_version(cur); an exception ends the sequence
NextVersion ==
    /\ applied < MaxApply
    /\ ~IsRaise(cur)
    /\ cur' = get_file_name_with_version(cur)
    /\ applied' = applied + 1
    /\ UNCHANGED <<file_, base, extn, ver, neuron_type, fit_number, built>>
    /\ UNCHANGED <<bestVars, multiVars, morphVars, featureVars, fileVars, fitVars, selVars, subVars, axisVars, updVars, combVars, cloneVars, nsVars>>

BuildFilePath ==
    /\ built = << >>
    /\ built' = check_version_build_file_path(file_, neuron_type, fit_number)
    /\ UNCHANGED <<file_, base, extn, ver, neuron_type, fit_number, cur, applied>>
    /\ UNCHANGED <<bestVars, multiVars, morphVars, featureVars, fileVars, fitVars, selVars, subVars, axisVars, updVars, combVars, cloneVars, nsVars>>

NamesIdle ==
    /\ file_ = << >> /\ base = << >> /\ extn = << >> /\ ver = 0
    /\ neuron_type = << >> /\ fit_number = 0
    /\ cur = << >> /\ applied = 0 /\ built = << >>

NamesNext == NextVersion \/ BuildFilePath

---------------------------------------------------------------------------
(* fitnesses.py: scores *)

\* A score is a non-negative number or NaN (the not-available sentinel);
\* np.inf is larger than every score of the model.
NaN == -1
Inf == 1000000

IsNaN(x) == x = NaN

\* IEEE comparison: false when either side is NaN
Less(a, b) == ~IsNaN(a) /\ ~IsNaN(b) /\ a < b

\* w[np.isnan(w)] = np.inf
NanToInf(w) == [i \in DOMAIN w |-> IF IsNaN(w[i]) THEN Inf ELSE w[i]]

\* np.argmin: the first index of the minimum; a NaN counts as the minimum
ArgMin(w) ==
    LET nans == {i \in DOMAIN w : IsNaN(w[i])}
        mins == {i \in DOMAIN w : \A j \in DOMAIN w : w[i] <= w[j]}
        from == IF nans # {} THEN nans ELSE mins
    IN CHOOSE i \in from : \A j \in from : i <= j

Perms(n) == {p \in [1..n -> 1..n] : \A i, j \in 1..n : p[i] = p[j] => i = j}

\* np.argsort (quicksort, not stable): the orders that sort w ascending,
\* NaN last; equal elements may come in either order.
ArgSorts(w) ==
    {p \in Perms(Len(w)) :
        \A i \in 1..(Len(w) - 1) :
            \/ IsNaN(w[p[i + 1]])
            \/ (~IsNaN(w[p[i]]) /\ w[p[i]] <= w[p[i + 1]])}

---------------------------------------------------------------------------
(* fitnesses.py: find_best, fit_sort *)

Scalars == {NaN, 0, 1, 2}

find_best_keeps_nan(w) == ArgMin(w)

\* group[w.argmin()] after NaN -> inf; the candidate is named by its index
find_best(w) == ArgMin(NanToInf(w))

\* np.array(group)[w.argsort()] after NaN -> inf: the possible index orders
fit_sort(w) == ArgSorts(NanToInf(w))

BestInit ==
    /\ \E n \in 1..MaxGroup : fitness \in [1..n -> Scalars]
    /\ found = 0
    /\ sorted = << >>

BestIdle == fitness = << >> /\ found = 0 /\ sorted = << >>

FindBest ==
    /\ fitness # << >>
    /\ found = 0
    /\ found' = find_best(fitness)
    /\ UNCHANGED <<fitness, sorted, nameVars, multiVars, morphVars, featureVars, fileVars, fitVars, selVars, subVars, axisVars, updVars, combVars, cloneVars, nsVars>>

FitSort ==
    /\ fitness # << >>
    /\ sorted = << >>
    /\ sorted' \in fit_sort(fitness)
    /\ UNCHANGED <<fitness, found, nameVars, multiVars, morphVars, featureVars, fileVars, fitVars, selVars, subVars, axisVars, updVars, combVars, cloneVars, nsVars>>

BestNext == FindBest \/ FitSort

---------------------------------------------------------------------------
(* fitnesses.py: find_multi_best *)

Axes == 1..2
ScoreVals == {NaN, 1, 3, 4}
ScoreVectors == [Axes -> ScoreVals]
\* similarity=.10 (the default) and similarity=0
Similarities == { <<1, 10>>, <<0, 1>> }

NotRun == [status |-> "not run", best |-> << >>]
Returns(b) == [status |-> "returned", best |-> b]
Raised(e) == [status |-> e, best |-> << >>]

HasNaN(score) == \E a \in Axes : IsNaN(score[a])

\* (x < y).all()
AllLess(x, y) == \A a \in Axes : Less(x[a], y[a])

RECURSIVE SumOver(_, _)
SumOver(f, S) ==
    IF S = {} THEN 0
    ELSE LET a == CHOOSE x \in S : TRUE IN f[a] + SumOver(f, S \ {a})

\* (score ** 2).sum()
SumSquares(score) == SumOver([a \in Axes |-> score[a] * score[a]], Axes)

\* ((x - y) ** 2).sum()
DistSquares(x, y) ==
    SumOver([a \in Axes |-> (x[a] - y[a]) * (x[a] - y[a])], Axes)

\* s[mask] for a boolean mask
RECURSIVE Select(_, _)
Select(s, keep) ==
    IF Len(s) = 0 THEN << >>
    ELSE (IF keep[1] THEN <<s[1]>> ELSE << >>)
           \o Select(Tail(s), Tail(keep))

\* Accumulate with <= in place of < in the dominance test
AccumulateDropsEqual(g, b, k) ==
    LET score == g[k]
    IN IF HasNaN(score) THEN b
       ELSE IF Len(b) > 0
       THEN LET dominates == [i \in 1..Len(b) |->
                                \A a \in Axes : score[a] <= g[b[i]][a]]
            IN Select(b, [i \in 1..Len(b) |-> ~dominates[i]]) \o <<k>>
       ELSE <<k>>

\* One pass of the for loop (lines 268-292) for candidate k, from the
\* accumulated candidates b.  The loop over best (lines 277-281) only breaks
\* out of itself and changes nothing.  -dominates is the mask's negation.
Accumulate(g, b, k) ==
    LET score == g[k]
    IN IF HasNaN(score) THEN b
       ELSE IF Len(b) > 0
       THEN LET dominates == [i \in 1..Len(b) |-> AllLess(score, g[b[i]])]
            IN Select(b, [i \in 1..Len(b) |-> ~dominates[i]]) \o <<k>>
       ELSE <<k>>

\* Lines 294-307 for one order returned by total.argsort(): best and scores
\* are reordered, total is not, so total[i] is the total of the candidate
\* accumulated i-th.
PostFilter(g, b, sim, order) ==
    LET total == [i \in 1..Len(b) |-> SumSquares(g[b[i]])]
        ordered == [i \in 1..Len(b) |-> b[order[i]]]
        worse == [i \in 1..Len(b) |->
                    \E j \in 1..(i - 1) :
                        DistSquares(g[ordered[i]], g[ordered[j]]) * sim[2]
                            < total[i] * sim[1]]
    IN Select(ordered, [i \in 1..Len(b) |-> ~worse[i]])

\* The values find_multi_best can return once the loop is over
find_multi_best_returns(g, b, sim) ==
    IF sim[1] = 0 THEN {Returns(b)}
    \* scores is still np.empty(0): .sum(axis=1) raises
    ELSE IF Len(b) = 0 THEN {Raised("AxisError")}
    ELSE {Returns(PostFilter(g, b, sim, order)) :
            order \in ArgSorts([i \in 1..Len(b) |-> SumSquares(g[b[i]])])}

MultiInit ==
    /\ \E n \in 1..MaxGroup : group \in [1..n -> ScoreVectors]
    /\ similarity \in Similarities
    /\ pos = 0
    /\ best = << >>
    /\ multi = NotRun

MultiIdle ==
    /\ group = << >> /\ similarity = <<0, 1>> /\ pos = 0 /\ best = << >>
    /\ multi = NotRun

MultiStep ==
    /\ pos < Len(group)
    /\ pos' = pos + 1
    /\ best' = Accumulate(group, best, pos + 1)
    /\ UNCHANGED <<group, similarity, multi, nameVars, bestVars, morphVars, featureVars, fileVars, fitVars, selVars, subVars, axisVars, updVars, combVars, cloneVars, nsVars>>

MultiReturn ==
    /\ group # << >>
    /\ pos = Len(group)
    /\ multi = NotRun
    /\ multi' \in find_multi_best_returns(group, best, similarity)
    /\ UNCHANGED <<group, similarity, pos, best, nameVars, bestVars, morphVars, featureVars, fileVars, fitVars, selVars, subVars, axisVars, updVars, combVars, cloneVars, nsVars>>

MultiNext == MultiStep \/ MultiReturn

---------------------------------------------------------------------------
(* basic_simulation.py: morph_morph_file *)

\* A morphology text is a sequence of symbols: the literal "*set_global RA"
\* (RM, CM) is one symbol, as are a space, a line break and any other
\* character ("x").
Params == <<"RA", "RM", "CM">>
Directive == [P \in {"RA", "RM", "CM"} |->
                 IF P = "RA" THEN "*set_global RA"
                 ELSE IF P = "RM" THEN "*set_global RM" ELSE "*set_global CM"]
Space == " "
NewLine == "\n"
Symbols == {Directive[P] : P \in {"RA", "RM", "CM"}} \cup {Space, NewLine, "x"}

None == <<"None">>
\* '{}'.format(value) of the overrides the model gives
OverrideValues == { <<"7">> }

RECURSIVE TextsUpTo(_)
TextsUpTo(n) ==
    IF n = 0 THEN { << >> }
    ELSE LET shorter == TextsUpTo(n - 1)
         IN shorter \cup {Append(t, c) : t \in {u \in shorter : Len(u) = n - 1},
                                         c \in Symbols}

\* Where r'(\*set_global P) .*' first matches in t: the directive followed by
\* a space; 0 when it does not match.
FirstMatch(t, P) ==
    LET hits == {i \in 1..(Len(t) - 1) : t[i] = Directive[P] /\ t[i + 1] = Space}
    IN IF hits = {} THEN 0 ELSE CHOOSE i \in hits : \A j \in hits : i <= j

\* The last position of the line that position i is on (".*" stops there)
LineEnd(t, i) ==
    LET breaks == {j \in i..Len(t) : t[j] = NewLine}
    IN IF breaks = {} THEN Len(t)
       ELSE (CHOOSE j \in breaks : \A k \in breaks : j <= k) - 1

\* re.sub(pat, r'\1 value', t): every match is replaced
RECURSIVE SubAll(_, _, _)
SubAll(t, P, value) ==
    LET i == FirstMatch(t, P)
    IN IF i = 0 THEN t
       ELSE SubSeq(t, 1, i + 1) \o value
              \o SubAll(SubSeq(t, LineEnd(t, i) + 1, Len(t)), P, value)

\* re.sub(pat, r'\1 value', t, count=1)
SubFirst(t, P, value) ==
    LET i == FirstMatch(t, P)
    IN IF i = 0 THEN t
       ELSE SubSeq(t, 1, i + 1) \o value \o SubSeq(t, LineEnd(t, i) + 1, Len(t))

\* The text written to new_file: the loop over ('RA', 'RM', 'CM')
morph_morph_file(t, ov) ==
    LET t1 == IF ov["RA"] # None THEN SubFirst(t, "RA", ov["RA"]) ELSE t
        t2 == IF ov["RM"] # None THEN SubFirst(t1, "RM", ov["RM"]) ELSE t1
    IN IF ov["CM"] # None THEN SubFirst(t2, "CM", ov["CM"]) ELSE t2

NotWritten == <<"not written">>

MorphInit ==
    /\ morph_text \in TextsUpTo(MaxText)
    /\ overrides \in [{"RA", "RM", "CM"} -> OverrideValues \cup {None}]
    /\ written = NotWritten

MorphIdle ==
    /\ morph_text = << >>
    /\ overrides = [P \in {"RA", "RM", "CM"} |-> None]
    /\ written = << >>

MorphMorphFile ==
    /\ written = NotWritten
    /\ written' = morph_morph_file(morph_text, overrides)
    /\ UNCHANGED <<morph_text, overrides, nameVars, bestVars, multiVars, featureVars, fileVars, fitVars, selVars, subVars, axisVars, updVars, combVars, cloneVars, nsVars>>

MorphNext == MorphMorphFile

---------------------------------------------------------------------------
(* features.py: Baseline *)

\* np.percentile(a, q) times 100, for a non-empty: linear interpolation
\* between the two samples around position q/100 * (n - 1) of the sorted
\* samples.  Amplitudes are integers, so 100 times the percentile is one too.
Percentile100(a, q) ==
    LET srt == SortSeq(a, LAMBDA u, w : u < w)
        at == q * (Len(a) - 1)
        lo == at \div 100
        frac == at % 100
        hi == IF lo + 2 <= Len(a) THEN lo + 2 ELSE lo + 1
    IN 100 * srt[lo + 1] + frac * (srt[hi] - srt[lo + 1])

RECURSIVE SeqSum(_)
SeqSum(a) == IF Len(a) = 0 THEN 0 ELSE a[1] + SeqSum(Tail(a))

NotAvailable == [available |-> FALSE, sum |-> 0, n |-> 0]
NotComputed == [available |-> FALSE, sum |-> 0, n |-> -1]

\* vartype.array_mean(cut): the mean of the kept samples (sum / n) as the
\* center; the mean of no samples is not available.  The spread is left out.
array_mean(cut) ==
    IF Len(cut) = 0 THEN NotAvailable
    ELSE [available |-> TRUE, sum |-> SeqSum(cut), n |-> Len(cut)]

\* The amplitudes wave.y of a sequence of samples
Amplitudes(w) == [i \in 1..Len(w) |-> w[i].y]

\* Baseline.baseline (lines 44-52).  np.percentile of no samples gives no
\* value (it raises or returns NaN); the traces of the model leave no window
\* empty.
Baseline_baseline(w, before, after) ==
    LET what == Amplitudes(SelectSeq(w, LAMBDA s : s.x < before \/ s.x > after))
    IN IF Len(what) = 0 THEN NotAvailable
       ELSE LET cutoffa == Percentile100(what, 5)
                cutoffb == Percentile100(what, 95)
                cut == SelectSeq(what,
                          LAMBDA v : 100 * v > cutoffa /\ 100 * v < cutoffb)
            IN array_mean(cut)

\* Baseline.steady (lines 56-65)
Baseline_steady(w, after, before, cutoff_) ==
    LET data == Amplitudes(SelectSeq(w, LAMBDA s : s.x > after /\ s.x < before))
    IN IF Len(data) = 0 THEN NotAvailable
       ELSE LET cutoff == Percentile100(data, cutoff_)
                cut == SelectSeq(data, LAMBDA v : 100 * v < cutoff)
            IN array_mean(cut)

\* The traces of the model: n samples at times 1..n, all at Level except up
\* to MaxOutliers samples at Low or High.  The stimulus window is the middle
\* half of the trace; the baseline is taken outside it, the steady state
\* inside it.
TraceLengths == {8, 44}
Level == 5
Low == 0
High == 9
SteadyCutoffs == {95, 100}

\* The subsets of S with at most k elements
RECURSIVE SubsetsUpTo(_, _)
SubsetsUpTo(S, k) ==
    IF k = 0 THEN { {} }
    ELSE LET smaller == SubsetsUpTo(S, k - 1)
         IN smaller \cup {T \cup {e} : T \in smaller, e \in S}

Trace(n, lows, highs) ==
    [i \in 1..n |->
        [x |-> i,
         y |-> IF i \in lows THEN Low ELSE IF i \in highs THEN High ELSE Level]]

FeatureInit ==
    /\ \E n \in TraceLengths :
         /\ \E outliers \in SubsetsUpTo(1..n, MaxOutliers) :
               \E lows \in SUBSET outliers :
                  wave = Trace(n, lows, outliers \ lows)
         /\ baseline_before = (n \div 4) + 1
         /\ baseline_after = 3 * (n \div 4)
         /\ steady_after = n \div 4
         /\ steady_before = 3 * (n \div 4) + 1
    /\ steady_cutoff \in SteadyCutoffs
    /\ baseline = NotComputed
    /\ steady = NotComputed

FeatureIdle ==
    /\ wave = << >>
    /\ baseline_before = 0 /\ baseline_after = 0
    /\ steady_after = 0 /\ steady_before = 0 /\ steady_cutoff = 0
    /\ baseline = NotComputed /\ steady = NotComputed

\* The first read of the baseline property (utilities.once keeps the value)
ReadBaseline ==
    /\ wave # << >>
    /\ baseline = NotComputed
    /\ baseline' = Baseline_baseline(wave, baseline_before, baseline_after)
    /\ UNCHANGED <<wave, baseline_before, baseline_after, steady_after,
                   steady_before, steady_cutoff, steady>>
    /\ UNCHANGED <<nameVars, bestVars, multiVars, morphVars, fileVars, fitVars, selVars, subVars, axisVars, updVars, combVars, cloneVars, nsVars>>

ReadSteady ==
    /\ wave # << >>
    /\ steady = NotComputed
    /\ steady' = Baseline_steady(wave, steady_after, steady_before, steady_cutoff)
    /\ UNCHANGED <<wave, baseline_before, baseline_after, steady_after,
                   steady_before, steady_cutoff, baseline>>
    /\ UNCHANGED <<nameVars, bestVars, multiVars, morphVars, fileVars, fitVars, selVars, subVars, axisVars, updVars, combVars, cloneVars, nsVars>>

FeatureNext == ReadBaseline \/ ReadSteady

---------------------------------------------------------------------------
(* process_common.py, process_morph.py: process_modification *)

\* process_modification calls clone_and_change_morph_file, which is modelled
\* from its definition in save_param/process_morph.py, and
\* clone_param_cond_file and extract_morph_file_from_cond of
\* process_param_cond, whose definitions are modelled from the specification.

\* A path is a string in which the directory name conductance_save is one
\* symbol.  A file's content is the morph_file mapping it defines (a
\* conductance file) and its text (a morphology file).
ConductanceSave == "conductance_save"
model_path == <<"/", "M">>
PathJoin(dir, name) == dir \o <<"/">> \o name
SaveDir == PathJoin(model_path, <<ConductanceSave>>)

NoMorphFile == [nt \in NeuronTypes |-> << >>]
CondContent(mapping) == [morph_file |-> mapping, text |-> << >>]
MorphContent(t) == [morph_file |-> NoMorphFile, text |-> t]
\* what open(path, 'w') leaves: an empty file
EmptyContent == MorphContent(<< >>)

IsFile(files, path) == path \in DOMAIN files
WriteFile(files, path, content) == (path :> content) @@ files

get_file_abs_path(files, dir, name) ==
    IF IsFile(files, PathJoin(dir, name)) THEN PathJoin(dir, name)
    ELSE IF IsFile(files, PathJoin(PathJoin(dir, <<ConductanceSave>>), name))
    THEN PathJoin(PathJoin(dir, <<ConductanceSave>>), name)
    ELSE Raise("ValueError")

\* 'conductance_save' in src_morph_file_path
InConductanceSave(path) == \E i \in DOMAIN path : path[i] = ConductanceSave

\* The record of a call: the files it opened for writing, each with whether
\* the name was on disk already, and the exception that ended it.
Opened(path, files) == [path |-> path, existed |-> IsFile(files, path)]
NoRun == [src_cond |-> << >>, src_morph |-> << >>, opened |-> << >>,
          raised |-> "not run"]

\* clone_param_cond_file(src_path, src_file, dest_file): copies the source
\* conductance file to dest_file and returns dest_file; copying a file onto
\* itself is refused.
clone_param_cond_file(files, src_path, src_file, dest_file) ==
    LET src == get_file_abs_path(files, src_path, src_file)
    IN IF src = dest_file THEN [fs |-> files, result |-> Raise("SameFileError")]
       ELSE [fs |-> WriteFile(files, dest_file, files[src]), result |-> dest_file]

\* extract_morph_file_from_cond(param_cond_file, neuron_type): the name the
\* conductance file's morph_file mapping gives the neuron type
extract_morph_file_from_cond(files, param_cond_file, ntype) ==
    files[param_cond_file].morph_file[ntype]

\* morph_morph_file(model_obj, neuron_type, src_morph_file_path,
\* new_file=open(...), **overrides) at process_morph.py:62 and 65: the
\* function's parameters are (model, new_file=None, RA=None, RM=None,
\* CM=None), so neuron_type is bound to new_file by position and the
\* new_file keyword is a second value for it: the call raises TypeError
\* before the function body runs, after its arguments were evaluated.
CallMorphMorphFile == Raise("TypeError")

\* clone_and_change_morph_file: [fs, src (the resolved source), opened,
\* result (the returned path or the exception)]
clone_and_change_morph_file(files, param_cond_file, dir, ntype) ==
    LET morph_file == extract_morph_file_from_cond(files, param_cond_file, ntype)
        src_morph_file_path == get_file_abs_path(files, dir, morph_file)
    IN IF IsRaise(src_morph_file_path)
       THEN [fs |-> files, src |-> << >>, opened |-> << >>,
             result |-> src_morph_file_path]
       ELSE LET new_morph_file_path ==
                    IF InConductanceSave(src_morph_file_path)
                    THEN get_file_name_with_version(src_morph_file_path)
                    ELSE PathJoin(PathJoin(dir, <<ConductanceSave>>), morph_file)
            IN IF IsRaise(new_morph_file_path)
               THEN [fs |-> files, src |-> src_morph_file_path, opened |-> << >>,
                     result |-> new_morph_file_path]
               \* open(new_morph_file_path, 'w') is evaluated, then the call raises
               ELSE [fs |-> WriteFile(files, new_morph_file_path, EmptyContent),
                     src |-> src_morph_file_path,
                     opened |-> <<Opened(new_morph_file_path, files)>>,
                     result |-> CallMorphMorphFile]

\* process_modification up to the exception that ends it: [fs, run].  The
\* call of clone_and_change_morph_file (line 74) never returns a path, so
\* lines 76-89 are not reached.
process_modification(files, new_param_cond, dir, ntype, fit, cond_file) ==
    LET new_cond_file_name == check_version_build_file_path(new_param_cond, ntype, fit)
        src_cond == get_file_abs_path(files, dir, cond_file)
    IN IF IsRaise(src_cond)
       THEN [fs |-> files, run |-> [NoRun EXCEPT !.raised = src_cond[2]]]
       ELSE LET cloned == clone_param_cond_file(files, dir, cond_file, new_cond_file_name)
            IN IF IsRaise(cloned.result)
               THEN [fs |-> files,
                     run |-> [NoRun EXCEPT !.src_cond = src_cond,
                                           !.raised = cloned.result[2]]]
               ELSE LET morph == clone_and_change_morph_file(cloned.fs, cloned.result,
                                                             dir, ntype)
                    IN [fs |-> morph.fs,
                        run |-> [src_cond |-> src_cond,
                                 src_morph |-> morph.src,
                                 opened |-> <<Opened(new_cond_file_name, files)>>
                                              \o morph.opened,
                                 raised |-> morph.result[2]]]

\* The model directory before the first call: one conductance file, whose
\* morph_file mapping names a morphology file for each neuron type, and the
\* morphology files, each under the model directory, under conductance_save,
\* under both or missing.
CondName == <<"c", ".", "p", "y">>
MorphNames == { <<"m", ".", "p">>, <<"m", "_", "V", "1", ".", "p">> }
Places == SUBSET {model_path, SaveDir}

RECURSIVE FilesAt(_, _)
FilesAt(where, names) ==
    IF names = {} THEN << >>
    ELSE LET n == CHOOSE x \in names : TRUE
             here == [path \in {PathJoin(d, n) : d \in where[n]} |-> MorphContent(n)]
         IN here @@ FilesAt(where, names \ {n})

\* The arguments of a call: the destination handed in (new_param_cond) and
\* the source conductance file name (cond_file)
NewParamConds == { PathJoin(SaveDir, CondName) }
CondFiles == { CondName, <<"c", "_", "D", "1", "_", "1", ".", "p", "y">> }

FilesInit ==
    /\ \E mapping \in [NeuronTypes -> MorphNames], where \in [MorphNames -> Places] :
         fs = WriteFile(FilesAt(where, MorphNames),
                        PathJoin(model_path, CondName), CondContent(mapping))
    /\ runs = 0
    /\ fs_before = fs
    /\ run = NoRun

FilesIdle == fs = << >> /\ runs = 0 /\ fs_before = << >> /\ run = NoRun

ProcessModification ==
    /\ runs < MaxRuns
    /\ DOMAIN fs # {}
    /\ \E new_param_cond \in NewParamConds, ntype \in NeuronTypes,
          fit \in FitNumbers, cond_file \in CondFiles :
         LET done == process_modification(fs, new_param_cond, model_path, ntype,
                                          fit, cond_file)
         IN /\ fs' = done.fs
            /\ run' = done.run
    /\ fs_before' = fs
    /\ runs' = runs + 1
    /\ UNCHANGED <<nameVars, bestVars, multiVars, morphVars, featureVars, fitVars, selVars, subVars, axisVars, updVars, combVars, cloneVars, nsVars>>

FilesNext == ProcessModification

---------------------------------------------------------------------------
(* features.py: _fit_falling_curve *)

\* What a name of features.py is bound to.  Line 5 (from . import utilities,
\* detect, vartype) binds vartype to the module; the class is its attribute
\* vartype.vartype.
ModuleObject == "module"
ClassObject == "class"
vartype_name == ModuleObject
vartype_vartype == ClassObject

\* callee(x, dev): a class builds the value, a module is not callable
Call(callee, x, dev) ==
    IF callee = ClassObject THEN [x |-> x, dev |-> dev] ELSE Raise("TypeError")

MinFitSamples == 5

\* optimize.curve_fit's results: popt and the diagonal of pcov
FitValues == {1, 2, 3}
Variances == {0, 4}
CurveFits == [amp : FitValues, tau : FitValues, amp_var : Variances, tau_var : Variances]
Sqrt(v) == CHOOSE r \in 0..v : r * r = v

NotFitted == [raised |-> "not run", function |-> "None",
              amp |-> [x |-> 0, dev |-> 0], tau |-> [x |-> 0, dev |-> 0]]
function_fit(func, amp, tau) ==
    [raised |-> "", function |-> func, amp |-> amp, tau |-> tau]
FitRaised(e) == [NotFitted EXCEPT !.raised = e]

_fit_falling_curve(size, negative, fitted) ==
    IF size < MinFitSamples
    THEN LET amp == Call(vartype_name, NaN, NaN)
             tau == Call(vartype_name, NaN, NaN)
         IN IF IsRaise(amp) THEN FitRaised(amp[2])
            ELSE IF IsRaise(tau) THEN FitRaised(tau[2])
            ELSE function_fit("None", amp, tau)
    ELSE LET func == IF negative THEN "negative_exp" ELSE "simple_exp"
             amp == Call(vartype_vartype, fitted.amp, Sqrt(fitted.amp_var))
             tau == Call(vartype_vartype, fitted.tau, Sqrt(fitted.tau_var))
         IN function_fit(func, amp, tau)

FitInit ==
    /\ ccut_size \in 0..MaxSamples
    /\ falls \in BOOLEAN
    /\ falling_curve_fit = NotFitted

FitIdle == ccut_size = 0 /\ falls = FALSE /\ falling_curve_fit = NotFitted

\* FallingCurve.falling_curve_fit
FitFallingCurve ==
    /\ falling_curve_fit = NotFitted
    /\ \E fitted \in CurveFits :
         falling_curve_fit' = _fit_falling_curve(ccut_size, falls, fitted)
    /\ UNCHANGED <<ccut_size, falls>>
    /\ UNCHANGED <<nameVars, bestVars, multiVars, morphVars, featureVars, fileVars, selVars, subVars, axisVars, updVars, combVars, cloneVars, nsVars>>

FitNext == FitFallingCurve

---------------------------------------------------------------------------
(* fitnesses.py: _select *)

\* Injection currents are whole multiples of 1e-13 A, so the tolerance 1e-12 A
\* of line 30 is 10 units; 100 units are 1e-11 A.
Tolerance == 10
Injections == {0, 1, 100}

Abs(v) == IF v < 0 THEN -v ELSE v

\* b[which] for a boolean mask: the traces whose mask entry is true, in order
MaskSelect(b, mask) ==
    LET kept == SelectSeq([j \in DOMAIN b |-> j], LAMBDA j : mask[j])
    IN [k \in DOMAIN kept |-> b[kept[k]]]

\* np.where(fitting): the index pairs of the true entries, row by row
RECURSIVE WhereFrom(_, _, _, _)
WhereFrom(a, bsel, i, j) ==
    IF i > Len(a) THEN << >>
    ELSE IF j > Len(bsel) THEN WhereFrom(a, bsel, i + 1, 1)
    ELSE (IF Abs(a[i].injection - bsel[j].injection) < Tolerance
          THEN << <<i, j>> >> ELSE << >>) \o WhereFrom(a, bsel, i, j + 1)

NotSelected == [done |-> FALSE, a |-> << >>, b |-> << >>]

\* _select without the mask: every measurement is paired
_select_unmasked(a, b, w) ==
    LET ind == WhereFrom(a, b, 1, 1)
    IN [done |-> TRUE,
        a |-> [k \in DOMAIN ind |-> a[ind[k][1]]],
        b |-> [k \in DOMAIN ind |-> b[ind[k][2]]]]

_select(a, b, w) ==
    LET bsel == IF w.given THEN MaskSelect(b, w.mask) ELSE b
        ind == WhereFrom(a, bsel, 1, 1)
    IN [done |-> TRUE,
        a |-> [k \in DOMAIN ind |-> a[ind[k][1]]],
        b |-> [k \in DOMAIN ind |-> bsel[ind[k][2]]]]

\* A collection: traces with distinct identities and any injections
Traces(n) ==
    { [i \in 1..n |-> [id |-> i, injection |-> inj[i]]] : inj \in [1..n -> Injections] }
NoMask == [given |-> FALSE, mask |-> << >>]

SelectInit ==
    /\ \E n \in 0..MaxTraces : sel_a \in Traces(n)
    /\ \E n \in 0..MaxTraces :
         /\ sel_b \in Traces(n)
         /\ which \in {NoMask} \cup { [given |-> TRUE, mask |-> m] : m \in [1..n -> BOOLEAN] }
    /\ selected = NotSelected

SelectIdle == sel_a = << >> /\ sel_b = << >> /\ which = NoMask /\ selected = NotSelected

RunSelect ==
    /\ ~selected.done
    /\ selected' = _select(sel_a, sel_b, which)
    /\ UNCHANGED <<sel_a, sel_b, which>>
    /\ UNCHANGED <<nameVars, bestVars, multiVars, morphVars, featureVars, fileVars, fitVars, subVars, axisVars, updVars, combVars, cloneVars, nsVars>>

SelectNext == RunSelect

---------------------------------------------------------------------------
(* fitnesses.py: sub_mes_dev *)

\* An operand is one value-with-uncertainty (isinstance(rec, vartype.vartype))
\* or a record array with fields x and dev; both hold their (x, dev) values
\* in items.  Centers and spreads are whole numbers of one unit.
Centers == {1, 4}
Spreads == {0, 12}
MinDevs == {0, 5}
Values == [x : Centers, dev : Spreads]
vartype_nan == [x |-> NaN, dev |-> NaN]
Single(v) == [kind |-> "vartype", items |-> <<v>>]
RecArray(vs) == [kind |-> "array", items |-> vs]
IsVartype(rec) == rec.kind = "vartype"

\* rec == vartype.vartype.nan: whether a value-with-uncertainty is the
\* not-available one
EqualsNan(rec) == IsNaN(rec.items[1].x)

\* The outcome: the value returned or the exception raised
NotSubtracted == [raised |-> "not run", kind |-> "vartype", items |-> << >>]
SubReturned(rec) == [raised |-> "", kind |-> rec.kind, items |-> rec.items]
SubRaised(e) == [NotSubtracted EXCEPT !.raised = e]

\* xy at line 19, element by element
SubXY(a, b, floor) ==
    [k \in DOMAIN a |-> [x |-> a[k].x - b[k].x,
                         dev |-> Sqrt(b[k].dev * b[k].dev + floor * floor)]]

sub_mes_dev(a, b, floor, stripped) ==
    IF IsVartype(a)
    THEN IF ~stripped /\ ~EqualsNan(a) THEN SubRaised("AssertionError")
         ELSE SubReturned(Single(vartype_nan))
    ELSE IF IsVartype(b)
    THEN IF ~stripped /\ ~EqualsNan(b) THEN SubRaised("AssertionError")
         ELSE SubReturned(Single(vartype_nan))
    ELSE IF Len(a.items) = 0 \/ Len(b.items) = 0
    THEN SubReturned(Single(vartype_nan))
    \* isinstance(reca, vartype.vartype) at line 20 is false here
    ELSE SubReturned(RecArray(SubXY(a.items, b.items, floor)))

Operands(n) ==
    IF n = 0 THEN {RecArray(<< >>)}
    ELSE {RecArray(vs) : vs \in [1..n -> Values]}
         \cup (IF n = 1 THEN {Single(v) : v \in Values \cup {vartype_nan}} ELSE {})

\* The operands of a call: two of one length, or one of them an empty array
SubInit ==
    /\ \E n, m \in 0..MaxRecs :
         /\ n = m \/ n = 0 \/ m = 0
         /\ reca \in Operands(n)
         /\ recb \in Operands(m)
    /\ min_dev \in MinDevs
    /\ optimized \in BOOLEAN
    /\ difference = NotSubtracted

SubIdle ==
    /\ reca = RecArray(<< >>) /\ recb = RecArray(<< >>)
    /\ min_dev = 0 /\ optimized = FALSE /\ difference = NotSubtracted

SubMesDev ==
    /\ difference = NotSubtracted
    /\ difference' = sub_mes_dev(reca, recb, min_dev, optimized)
    /\ UNCHANGED <<reca, recb, min_dev, optimized>>
    /\ UNCHANGED <<nameVars, bestVars, multiVars, morphVars, featureVars, fileVars, fitVars, selVars, axisVars, updVars, combVars, cloneVars, nsVars>>

SubNext == SubMesDev

---------------------------------------------------------------------------
(* fitnesses.py: the per-axis fitness functions *)

\* A trace carries its injection (in units of 1e-13 A), its spike_count and
\* feature, the value of the attribute the called function reads (response,
\* baseline, rectification, charging_curve_halfheight, falling_curve_tau,
\* mean_isi, isi_spread, spike_latency), with spread 0.
\* A score is not-available, sqrt(sumsq / n) or sqrt(sumsq).
ScoreNaN == [kind |-> "nan", sumsq |-> 0, n |-> 0]
\* (diff**2).sum()
RECURSIVE SquaresSum(_)
SquaresSum(xs) ==
    IF Len(xs) = 0 THEN 0 ELSE Head(xs) * Head(xs) + SquaresSum(Tail(xs))
RootMeanSquare(xs) ==
    IF Len(xs) = 0 THEN ScoreNaN
    ELSE [kind |-> "rms", sumsq |-> SquaresSum(xs), n |-> Len(xs)]
RootSum(xs) == [kind |-> "root_sum", sumsq |-> SquaresSum(xs), n |-> Len(xs)]

DefaultMinDev == 5
ResponseLimit == 1100
HyperpolarizingLimit == -100

FeatureArray(traces) ==
    RecArray([k \in DOMAIN traces |-> [x |-> traces[k].feature, dev |-> 0]])
GivenMask(mask) == [given |-> TRUE, mask |-> mask]

\* vartype.array_rms: the root mean square of the differences' centers,
\* not-available for the not-available value
array_rms(diff) ==
    IF diff.kind = "vartype" THEN ScoreNaN
    ELSE RootMeanSquare([k \in DOMAIN diff.items |-> diff.items[k].x])
\* vartype.array_sub: the element-wise difference
array_sub(lefts, rights) ==
    RecArray([k \in DOMAIN lefts.items |->
                 [x |-> lefts.items[k].x - rights.items[k].x, dev |-> 0]])

\* sub_mes_dev(m1.<attribute>, m2.<attribute>) with the default min_dev
SubFeatures(m1, m2) ==
    sub_mes_dev(FeatureArray(m1), FeatureArray(m2), DefaultMinDev, FALSE)

response_fitness(sim, measurement) ==
    LET m == _select(sim, measurement,
                     GivenMask([j \in DOMAIN measurement |->
                         measurement[j].injection <= ResponseLimit]))
    IN array_rms(SubFeatures(m.a, m.b))

baseline_fitness(sim, measurement) ==
    LET m == _select(sim, measurement, NoMask)
    IN array_rms(SubFeatures(m.a, m.b))

rectification_fitness(sim, measurement) ==
    LET m == _select(sim, measurement,
                     GivenMask([j \in DOMAIN measurement |->
                         measurement[j].injection <= HyperpolarizingLimit]))
    IN array_rms(SubFeatures(m.a, m.b))

charging_curve_fitness(sim, measurement) ==
    LET m == _select(sim, measurement,
                     GivenMask([j \in DOMAIN measurement |->
                         measurement[j].spike_count >= 1]))
    IN IF Len(m.b) = 0 THEN ScoreNaN
       ELSE array_rms(SubFeatures(m.a, m.b))

falling_curve_time_fitness(sim, measurement) ==
    LET m == _select(sim, measurement,
                     GivenMask([j \in DOMAIN measurement |->
                         measurement[j].injection <= HyperpolarizingLimit]))
    IN IF Len(m.b) = 0 THEN ScoreNaN
       ELSE array_rms(array_sub(FeatureArray(m.a), FeatureArray(m.b)))

mean_isi_fitness(sim, measurement) ==
    LET meas == SelectSeq(measurement, LAMBDA t : t.spike_count >= 2)
        ind == WhereFrom(sim, meas, 1, 1)
    IN IF Len(meas) = 0 THEN ScoreNaN
       ELSE array_rms(SubFeatures([k \in DOMAIN ind |-> sim[ind[k][1]]],
                                  [k \in DOMAIN ind |-> meas[ind[k][2]]]))

isi_spread_fitness(sim, measurement) ==
    LET meas == SelectSeq(measurement, LAMBDA t : t.spike_count >= 2)
        ind == WhereFrom(sim, meas, 1, 1)
    IN IF Len(meas) = 0 THEN ScoreNaN
       ELSE RootMeanSquare([k \in DOMAIN ind |->
                sim[ind[k][1]].feature - meas[ind[k][2]].feature])

spike_count_fitness(sim, measurement) ==
    LET ind == WhereFrom(sim, measurement, 1, 1)
    IN RootSum([k \in DOMAIN ind |->
           sim[ind[k][1]].spike_count - measurement[ind[k][2]].spike_count])

spike_latency_fitness(sim, measurement) ==
    LET meas == SelectSeq(measurement, LAMBDA t : t.spike_count >= 1)
        ind == WhereFrom(sim, meas, 1, 1)
    IN RootMeanSquare([k \in DOMAIN ind |->
           sim[ind[k][1]].feature - meas[ind[k][2]].feature])

FitnessFunctions ==
    {"response", "baseline", "rectification", "charging_curve",
     "falling_curve_time", "mean_isi", "isi_spread", "spike_count",
     "spike_latency"}

Fitness(f, sim, measurement) ==
    CASE f = "response" -> response_fitness(sim, measurement)
      [] f = "baseline" -> baseline_fitness(sim, measurement)
      [] f = "rectification" -> rectification_fitness(sim, measurement)
      [] f = "charging_curve" -> charging_curve_fitness(sim, measurement)
      [] f = "falling_curve_time" -> falling_curve_time_fitness(sim, measurement)
      [] f = "mean_isi" -> mean_isi_fitness(sim, measurement)
      [] f = "isi_spread" -> isi_spread_fitness(sim, measurement)
      [] f = "spike_count" -> spike_count_fitness(sim, measurement)
      [] f = "spike_latency" -> spike_latency_fitness(sim, measurement)

AxisInjections == {-100, 1200}
SpikeCounts == {0, 2}
SimTraces == [injection : AxisInjections, spike_count : SpikeCounts, feature : {1, 3}]
MeasTraces == [injection : AxisInjections, spike_count : SpikeCounts, feature : {1}]

AxisInit ==
    /\ \E n \in 0..MaxFitTraces : fit_sim \in [1..n -> SimTraces]
    /\ \E n \in 0..MaxFitTraces : fit_meas \in [1..n -> MeasTraces]
    /\ evaluated = "none"
    /\ axis_score = ScoreNaN

AxisIdle == fit_sim = << >> /\ fit_meas = << >> /\ evaluated = "none" /\ axis_score = ScoreNaN

EvalFitness ==
    /\ evaluated = "none"
    /\ \E f \in FitnessFunctions :
         /\ evaluated' = f
         /\ axis_score' = Fitness(f, fit_sim, fit_meas)
    /\ UNCHANGED <<fit_sim, fit_meas>>
    /\ UNCHANGED <<nameVars, bestVars, multiVars, morphVars, featureVars, fileVars, fitVars, selVars, subVars, updVars, combVars, cloneVars, nsVars>>

AxisNext == EvalFitness

---------------------------------------------------------------------------
(* process_morph.py: update_morph_file_name *)

Quote == "'"
Colon == ":"
\* \s and [0-9a-zA-Z\.\-_] over the characters of the model's lines
IsSpace(c) == c = Space
IsNameChar(c) == IsDigit(c) \/ c \in {"D", "E", "m", "n", "p", ".", "-", "_"}

\* The end of the longest run of characters satisfying a class, from i on
RECURSIVE SkipSpaces(_, _)
SkipSpaces(l, i) ==
    IF i <= Len(l) /\ IsSpace(l[i]) THEN SkipSpaces(l, i + 1) ELSE i
RECURSIVE SkipName(_, _)
SkipName(l, i) ==
    IF i <= Len(l) /\ IsNameChar(l[i]) THEN SkipName(l, i + 1) ELSE i

StartsWith(l, i, s) ==
    /\ i + Len(s) - 1 <= Len(l)
    /\ SubSeq(l, i, i + Len(s) - 1) = s

\* Where a match of  \'<key>\':\'[0-9a-zA-Z\.\-_]+\'  (no \s*) starting at i
\* ends; 0 without a match
TightMatchEnd(l, i, key) ==
    LET head == <<Quote>> \o key \o <<Quote, Colon, Quote>>
        v == i + Len(head)
        e == SkipName(l, v)
    IN IF StartsWith(l, i, head) /\ e > v /\ e <= Len(l) /\ l[e] = Quote
       THEN e ELSE 0

\* Where a match of  \'<key>\'\s*:\s*\'[0-9a-zA-Z\.\-_]+\'  starting at i
\* ends; 0 without a match
MatchEnd(l, i, key) ==
    LET head == <<Quote>> \o key \o <<Quote>>
        c == SkipSpaces(l, i + Len(head))
        q == SkipSpaces(l, c + 1)
        e == SkipName(l, q + 1)
    IN IF /\ StartsWith(l, i, head)
          /\ c <= Len(l) /\ l[c] = Colon
          /\ q <= Len(l) /\ l[q] = Quote
          /\ e > q + 1 /\ e <= Len(l) /\ l[e] = Quote
       THEN e ELSE 0

\* repl
Replacement(key, name) ==
    <<Quote>> \o key \o <<Quote, Colon, Quote>> \o name \o <<Quote>>

\* re.sub(pattern, repl, line): every match, left to right
RECURSIVE ReSubTight(_, _, _, _)
ReSubTight(l, i, key, name) ==
    IF i > Len(l) THEN << >>
    ELSE LET e == TightMatchEnd(l, i, key)
         IN IF e = 0 THEN <<l[i]>> \o ReSubTight(l, i + 1, key, name)
            ELSE Replacement(key, name) \o ReSubTight(l, e + 1, key, name)

RECURSIVE ReSub(_, _, _, _)
ReSub(l, i, key, name) ==
    IF i > Len(l) THEN << >>
    ELSE LET e == MatchEnd(l, i, key)
         IN IF e = 0 THEN <<l[i]>> \o ReSub(l, i + 1, key, name)
            ELSE Replacement(key, name) \o ReSub(l, e + 1, key, name)

update_morph_file_name_tight(l, key, name) == ReSubTight(l, 1, key, name)

update_morph_file_name(l, key, name) == ReSub(l, 1, key, name)

\* The lines: up to MaxLine pieces, each a quoted name, a colon, a blank or
\* a comma
Pieces == { <<Quote, "D", Quote>>, <<Quote, "m", Quote>>, <<Colon>>, <<Space>>, <<",">> }
RECURSIVE Flatten(_)
Flatten(ps) == IF Len(ps) = 0 THEN << >> ELSE Head(ps) \o Flatten(Tail(ps))
KeyNames == { <<"D">>, <<"E">> }
NewFileNames == { <<"n", ".", "p">> }
NotUpdated == <<"not run">>

UpdateInit ==
    /\ \E n \in 0..MaxLine : \E ps \in [1..n -> Pieces] : line = Flatten(ps)
    /\ upd_neuron_type \in KeyNames
    /\ new_file_name \in NewFileNames
    /\ updated = NotUpdated

UpdateIdle ==
    /\ line = << >> /\ upd_neuron_type = << >> /\ new_file_name = << >>
    /\ updated = NotUpdated

UpdateMorphFileName ==
    /\ updated = NotUpdated
    /\ upd_neuron_type # << >>
    /\ updated' = update_morph_file_name(line, upd_neuron_type, new_file_name)
    /\ UNCHANGED <<line, upd_neuron_type, new_file_name>>
    /\ UNCHANGED <<nameVars, bestVars, multiVars, morphVars, featureVars, fileVars, fitVars, selVars, subVars, axisVars, combVars, cloneVars, nsVars>>

UpdateNext == UpdateMorphFileName

---------------------------------------------------------------------------
(* fitnesses.py: simple_combined_fitness *)

\* The functions listed at lines 223-233
NumAxes == 11

\* v ** 2 of a score that may be NaN
Squared(v) == IF IsNaN(v) THEN NaN ELSE v * v

\* np.nansum
RECURSIVE NanSum(_)
NanSum(xs) ==
    IF Len(xs) = 0 THEN 0
    ELSE (IF IsNaN(Head(xs)) THEN 0 ELSE Head(xs)) + NanSum(Tail(xs))

\* The result: arr when full, else the number sqrt(sum / size)
NotCombined == [status |-> "not run", arr |-> << >>, sum |-> 0, size |-> 0]
ReturnsArr(arr) == [status |-> "arr", arr |-> arr, sum |-> 0, size |-> 0]
ReturnsRoot(sum, size) == [status |-> "root", arr |-> << >>, sum |-> sum, size |-> size]

simple_combined_fitness(scores, full_) ==
    LET arr == [a \in DOMAIN scores |-> Squared(scores[a])]
    IN IF full_ THEN ReturnsArr(arr)
       ELSE ReturnsRoot(NanSum([a \in DOMAIN arr |-> Squared(arr[a])]), Len(arr))

\* The scores of a call: each axis not-available or one common score
CombinedInit ==
    /\ \E s \in 0..MaxScore : axis_scores \in [1..NumAxes -> {NaN, s}]
    /\ full \in BOOLEAN
    /\ combined = NotCombined

CombinedIdle == axis_scores = << >> /\ full = FALSE /\ combined = NotCombined

SimpleCombinedFitness ==
    /\ combined = NotCombined
    /\ axis_scores # << >>
    /\ combined' = simple_combined_fitness(axis_scores, full)
    /\ UNCHANGED <<axis_scores, full>>
    /\ UNCHANGED <<nameVars, bestVars, multiVars, morphVars, featureVars, fileVars, fitVars, selVars, subVars, axisVars, updVars, cloneVars, nsVars>>

CombinedNext == SimpleCombinedFitness

---------------------------------------------------------------------------
(* process_morph.py: clone_and_change_morph_file over several model paths *)

\* The model directories: one whose path holds the text conductance_save in
\* the name of a parent directory (/conductance_save_o/M)
ModelPaths == { model_path, <<"/", ConductanceSave, "_", "o", "/", "M">> }
SaveDirOf(dir) == PathJoin(dir, <<ConductanceSave>>)
PlacesOf(dir) == SUBSET {dir, SaveDirOf(dir)}

NotCloned == [fs |-> << >>, src |-> << >>, opened |-> << >>, result |-> << >>]

\* The conductance file handed in (param_cond_file) is a clone under
\* conductance_save; the morphology files are as before a first call.
CloneInit ==
    /\ clone_dir \in ModelPaths
    /\ clone_ntype \in NeuronTypes
    /\ \E mapping \in [NeuronTypes -> MorphNames],
          where \in [MorphNames -> PlacesOf(clone_dir)] :
         clone_files = WriteFile(FilesAt(where, MorphNames),
                                 PathJoin(SaveDirOf(clone_dir), CondName),
                                 CondContent(mapping))
    /\ morph_clone = NotCloned

CloneIdle ==
    /\ clone_dir = << >> /\ clone_ntype = << >> /\ clone_files = << >>
    /\ morph_clone = NotCloned

CloneAndChangeMorphFile ==
    /\ morph_clone = NotCloned
    /\ clone_dir # << >>
    /\ morph_clone' = clone_and_change_morph_file(
                     clone_files, PathJoin(SaveDirOf(clone_dir), CondName),
                     clone_dir, clone_ntype)
    /\ UNCHANGED <<clone_dir, clone_files, clone_ntype>>
    /\ UNCHANGED <<nameVars, bestVars, multiVars, morphVars, featureVars, fileVars, fitVars, selVars, subVars, axisVars, updVars, combVars, nsVars>>

CloneNext == CloneAndChangeMorphFile

---------------------------------------------------------------------------
(* fitnesses.py: normalize_dimensions, find_nonsimilar *)

ParamDims == 1..2
ParamVectors == { <<0, 0>>, <<1, 0>>, <<2, 0>>, <<0, 2>> }
NsScoreVectors == { <<1>>, <<NaN>> }
NsSimilarities == { <<1, 10>>, <<3, 2>> }

\* (scores ** 2).sum(axis=1) of one candidate, infinite with an infinite score
RECURSIVE TotalOf(_)
TotalOf(sc) ==
    IF Len(sc) = 0 THEN 0
    ELSE IF Head(sc) = Inf \/ TotalOf(Tail(sc)) = Inf THEN Inf
    ELSE Head(sc) * Head(sc) + TotalOf(Tail(sc))

\* normalize_dimensions: the normalized value of candidate i in dimension d is
\* (v - mean) / radius = NormNum(vect, i, d) / NormDen(vect, d)
ColumnSum(vect, d) == SumOver([i \in DOMAIN vect |-> vect[i][d]], DOMAIN vect)
Ptp(vect, d) ==
    LET col == {vect[i][d] : i \in DOMAIN vect}
    IN (CHOOSE x \in col : \A y \in col : y <= x)
         - (CHOOSE x \in col : \A y \in col : x <= y)
NormNum(vect, i, d) == 2 * (Len(vect) * vect[i][d] - ColumnSum(vect, d))
NormDen(vect, d) == Len(vect) * Ptp(vect, d)
\* the dimensions kept by .T[-trivial].T
NonTrivial(vect) == {d \in ParamDims : Ptp(vect, d) # 0}

RECURSIVE ProdOver(_, _)
ProdOver(f, S) ==
    IF S = {} THEN 1
    ELSE LET a == CHOOSE x \in S : TRUE IN f[a] * ProdOver(f, S \ {a})

\* ((normalized[j] - normalized[i])**2).sum()**0.5 < similarity, both sides
\* squared and multiplied by the denominators
NormalizedCloser(vect, i, j, sim) ==
    LET dims == NonTrivial(vect)
        den == [d \in dims |-> NormDen(vect, d) * NormDen(vect, d)]
        num == [d \in dims |->
                   (NormNum(vect, j, d) - NormNum(vect, i, d))
                     * (NormNum(vect, j, d) - NormNum(vect, i, d))
                     * ProdOver(den, dims \ {d})]
    IN SumOver(num, dims) * sim[2] * sim[2] < sim[1] * sim[1] * ProdOver(den, dims)

\* The loop without the test of duplicate[i]
RECURSIVE MarkDuplicatesOfAll(_, _, _, _)
MarkDuplicatesOfAll(vect, sim, i, duplicate) ==
    IF i > Len(vect) - 1 THEN duplicate
    ELSE MarkDuplicatesOfAll(vect, sim, i + 1,
             [j \in DOMAIN duplicate |->
                 duplicate[j] \/ (j > i /\ NormalizedCloser(vect, i, j, sim))])

\* The for loop of lines 343-346 from i on (params already in order);
\* duplicate is the flag of every position
RECURSIVE MarkDuplicates(_, _, _, _)
MarkDuplicates(vect, sim, i, duplicate) ==
    IF i > Len(vect) - 1 THEN duplicate
    ELSE IF duplicate[i] THEN MarkDuplicates(vect, sim, i + 1, duplicate)
    ELSE MarkDuplicates(vect, sim, i + 1,
             [j \in DOMAIN duplicate |->
                 duplicate[j] \/ (j > i /\ NormalizedCloser(vect, i, j, sim))])

\* group[-duplicate] for the chosen order: the candidates' indices
find_nonsimilar(params, order, sim) ==
    LET sorted_params == [k \in DOMAIN order |-> params[order[k]]]
        duplicate == MarkDuplicates(sorted_params, sim, 1,
                                    [k \in DOMAIN order |-> FALSE])
    IN Select(order, [k \in DOMAIN order |-> ~duplicate[k]])

NotFiltered == <<0>>

NonsimilarInit ==
    /\ \E n \in 1..MaxCandidates :
         /\ ns_params \in [1..n -> ParamVectors]
         /\ ns_scores \in [1..n -> NsScoreVectors]
    /\ ns_similarity \in NsSimilarities
    /\ ns_order = << >>
    /\ nonsimilar = NotFiltered

NonsimilarIdle ==
    /\ ns_params = << >> /\ ns_scores = << >> /\ ns_similarity = <<0, 1>>
    /\ ns_order = << >> /\ nonsimilar = NotFiltered

FindNonsimilar ==
    /\ nonsimilar = NotFiltered
    /\ ns_params # << >>
    /\ LET scores == [i \in DOMAIN ns_scores |-> NanToInf(ns_scores[i])]
           total == [i \in DOMAIN scores |-> TotalOf(scores[i])]
       IN \E order \in ArgSorts(total) :
            /\ ns_order' = order
            /\ nonsimilar' = find_nonsimilar(ns_params, order, ns_similarity)
    /\ UNCHANGED <<ns_params, ns_scores, ns_similarity>>
    /\ UNCHANGED <<nameVars, bestVars, multiVars, morphVars, featureVars, fileVars, fitVars, selVars, subVars, axisVars, updVars, combVars, cloneVars>>

NonsimilarNext == FindNonsimilar

---------------------------------------------------------------------------
(* Specifications *)

\* Each specification runs one part of the program; the variables of the
\* other parts stay idle.
NamesSpecInit == NamesInit /\ BestIdle /\ MultiIdle /\ MorphIdle /\ FeatureIdle
    /\ FilesIdle
    /\ FitIdle
    /\ SelectIdle
    /\ SubIdle
    /\ AxisIdle
    /\ UpdateIdle
    /\ CombinedIdle
    /\ CloneIdle
    /\ NonsimilarIdle
NamesSpec == NamesSpecInit /\ [][NamesNext]_vars

BestSpecInit == BestInit /\ NamesIdle /\ MultiIdle /\ MorphIdle /\ FeatureIdle
    /\ FilesIdle
    /\ FitIdle
    /\ SelectIdle
    /\ SubIdle
    /\ AxisIdle
    /\ UpdateIdle
    /\ CombinedIdle
    /\ CloneIdle
    /\ NonsimilarIdle
BestSpec == BestSpecInit /\ [][BestNext]_vars

MultiSpecInit == MultiInit /\ NamesIdle /\ BestIdle /\ MorphIdle /\ FeatureIdle
    /\ FilesIdle
    /\ FitIdle
    /\ SelectIdle
    /\ SubIdle
    /\ AxisIdle
    /\ UpdateIdle
    /\ CombinedIdle
    /\ CloneIdle
    /\ NonsimilarIdle
MultiSpec == MultiSpecInit /\ [][MultiNext]_vars

MorphSpecInit == MorphInit /\ NamesIdle /\ BestIdle /\ MultiIdle /\ FeatureIdle
    /\ FilesIdle
    /\ FitIdle
    /\ SelectIdle
    /\ SubIdle
    /\ AxisIdle
    /\ UpdateIdle
    /\ CombinedIdle
    /\ CloneIdle
    /\ NonsimilarIdle
MorphSpec == MorphSpecInit /\ [][MorphNext]_vars

FeatureSpecInit == FeatureInit /\ NamesIdle /\ BestIdle /\ MultiIdle /\ MorphIdle
    /\ FilesIdle
    /\ FitIdle
    /\ SelectIdle
    /\ SubIdle
    /\ AxisIdle
    /\ UpdateIdle
    /\ CombinedIdle
    /\ CloneIdle
    /\ NonsimilarIdle
FeatureSpec == FeatureSpecInit /\ [][FeatureNext]_vars

FilesSpecInit == FilesInit /\ NamesIdle /\ BestIdle /\ MultiIdle /\ MorphIdle
    /\ FeatureIdle
    /\ FitIdle
    /\ SelectIdle
    /\ SubIdle
    /\ AxisIdle
    /\ UpdateIdle
    /\ CombinedIdle
    /\ CloneIdle
    /\ NonsimilarIdle
FilesSpec == FilesSpecInit /\ [][FilesNext]_vars

FitSpecInit == FitInit /\ NamesIdle /\ BestIdle /\ MultiIdle /\ MorphIdle
    /\ FeatureIdle /\ FilesIdle
    /\ SelectIdle
    /\ SubIdle
    /\ AxisIdle
    /\ UpdateIdle
    /\ CombinedIdle
    /\ CloneIdle
    /\ NonsimilarIdle
FitSpec == FitSpecInit /\ [][FitNext]_vars

SelectSpecInit == SelectInit /\ NamesIdle /\ BestIdle /\ MultiIdle /\ MorphIdle
    /\ FeatureIdle /\ FilesIdle /\ FitIdle
    /\ SubIdle
    /\ AxisIdle
    /\ UpdateIdle
    /\ CombinedIdle
    /\ CloneIdle
    /\ NonsimilarIdle
SelectSpec == SelectSpecInit /\ [][SelectNext]_vars

SubSpecInit == SubInit /\ NamesIdle /\ BestIdle /\ MultiIdle /\ MorphIdle
    /\ FeatureIdle /\ FilesIdle /\ FitIdle /\ SelectIdle
    /\ AxisIdle
    /\ UpdateIdle
    /\ CombinedIdle
    /\ CloneIdle
    /\ NonsimilarIdle
SubSpec == SubSpecInit /\ [][SubNext]_vars

AxisSpecInit == AxisInit /\ NamesIdle /\ BestIdle /\ MultiIdle /\ MorphIdle
    /\ FeatureIdle /\ FilesIdle /\ FitIdle /\ SelectIdle /\ SubIdle
    /\ UpdateIdle
    /\ CombinedIdle
    /\ CloneIdle
    /\ NonsimilarIdle
AxisSpec == AxisSpecInit /\ [][AxisNext]_vars

UpdateSpecInit == UpdateInit /\ NamesIdle /\ BestIdle /\ MultiIdle /\ MorphIdle
    /\ FeatureIdle /\ FilesIdle /\ FitIdle /\ SelectIdle /\ SubIdle /\ AxisIdle
    /\ CombinedIdle
    /\ CloneIdle
    /\ NonsimilarIdle
UpdateSpec == UpdateSpecInit /\ [][UpdateNext]_vars

CombinedSpecInit == CombinedInit /\ NamesIdle /\ BestIdle /\ MultiIdle /\ MorphIdle
    /\ FeatureIdle /\ FilesIdle /\ FitIdle /\ SelectIdle /\ SubIdle /\ AxisIdle
    /\ UpdateIdle
    /\ CloneIdle
    /\ NonsimilarIdle
CombinedSpec == CombinedSpecInit /\ [][CombinedNext]_vars

CloneSpecInit == CloneInit /\ NamesIdle /\ BestIdle /\ MultiIdle /\ MorphIdle
    /\ FeatureIdle /\ FilesIdle /\ FitIdle /\ SelectIdle /\ SubIdle /\ AxisIdle
    /\ UpdateIdle /\ CombinedIdle
    /\ NonsimilarIdle
CloneSpec == CloneSpecInit /\ [][CloneNext]_vars

NonsimilarSpecInit == NonsimilarInit /\ NamesIdle /\ BestIdle /\ MultiIdle
    /\ MorphIdle /\ FeatureIdle /\ FilesIdle /\ FitIdle /\ SelectIdle /\ SubIdle
    /\ AxisIdle /\ UpdateIdle /\ CombinedIdle /\ CloneIdle
NonsimilarSpec == NonsimilarSpecInit /\ [][NonsimilarNext]_vars

---------------------------------------------------------------------------
(* Claims *)

\* C3: every application of get_file_name_with_version to base[_V<N>].ext
\* gives the next version: after k applications to a name of version ver
\* (0: unversioned) the name is base_V<ver+k>.ext, for .py and for .p alike.
NextVersionLaw ==
    applied > 0 => cur = VersionedName(base, ver + applied, extn)

\* The .py half of C3, which the code keeps.
PyNextVersionLaw ==
    (applied > 0 /\ extn = <<"p", "y">>)
        => cur = VersionedName(base, ver + applied, extn)

\* C4: check_version_build_file_path(base[_V<N>].ext, neuron_type, fit_number)
\* is base_<neuron_type>_<fit_number>[_V<N>].ext, the base carried over
\* character for character.
BuildFilePathKeepsBase ==
    built # << >> => built = BuiltName(base, neuron_type, fit_number, ver, extn)

\* C7: find_best returns a candidate of minimum score, never a not-available
\* one when the group has a finite score; fit_sort returns a permutation in
\* ascending score order with every not-available candidate after every
\* finite one.
FindBestFitSortNaNLast ==
    /\ found # 0 =>
          /\ found \in DOMAIN fitness
          /\ (\E j \in DOMAIN fitness : ~IsNaN(fitness[j]))
                => /\ ~IsNaN(fitness[found])
                   /\ \A j \in DOMAIN fitness :
                         ~IsNaN(fitness[j]) => fitness[found] <= fitness[j]
    /\ sorted # << >> =>
          /\ Len(sorted) = Len(fitness)
          /\ \A k \in DOMAIN fitness : \E i \in DOMAIN sorted : sorted[i] = k
          /\ \A i, j \in DOMAIN sorted :
                i < j =>
                  /\ IsNaN(fitness[sorted[i]]) => IsNaN(fitness[sorted[j]])
                  /\ (~IsNaN(fitness[sorted[i]]) /\ ~IsNaN(fitness[sorted[j]]))
                        => fitness[sorted[i]] <= fitness[sorted[j]]

\* C7 witness: both ran on a group holding a not-available candidate before
\* a finite one.
FindBestFitSortRan ==
    /\ found # 0 /\ sorted # << >>
    /\ Len(fitness) >= 2
    /\ IsNaN(fitness[1])
    /\ \E j \in DOMAIN fitness : ~IsNaN(fitness[j])

\* Candidate j dominates candidate i: i is worse or equal on every axis, and
\* not the same score vector.
Dominates(j, i) ==
    /\ ~HasNaN(group[j]) /\ ~HasNaN(group[i])
    /\ group[j] # group[i]
    /\ \A a \in Axes : group[j][a] <= group[i][a]

Returned(i) == \E k \in DOMAIN multi.best : multi.best[k] = i

MultiReturned == multi.status = "returned"

\* C5: find_multi_best returns no candidate that another candidate of the
\* group dominates, whatever the order the candidates are processed in.
MultiBestExcludesDominated ==
    MultiReturned =>
        \A i \in DOMAIN group :
            (\E j \in DOMAIN group : Dominates(j, i)) => ~Returned(i)

\* The C5 case of the specification's example: a strictly dominated candidate
\* processed after the candidate that dominates it is not returned.
MultiBestExcludesLaterDominated ==
    MultiReturned =>
        \A i, j \in DOMAIN group :
            (j < i /\ ~HasNaN(group[i]) /\ AllLess(group[j], group[i]))
                => ~Returned(i)

NonDominated(i) ==
    /\ ~HasNaN(group[i])
    /\ \A j \in DOMAIN group : ~Dominates(j, i)

\* C6 as stated: a candidate with no NaN axis that no other candidate
\* dominates is returned, with similarity=0.10 and with similarity=0.
MultiBestKeepsNonDominated ==
    MultiReturned =>
        \A i \in DOMAIN group : NonDominated(i) => Returned(i)

\* C6 as amended: with similarity=0, a candidate with no NaN axis that no
\* other candidate dominates is returned (with similarity=0.10 the
\* near-duplicate filter may drop it).
MultiBestKeepsNonDominatedUnfiltered ==
    (MultiReturned /\ similarity[1] = 0) =>
        \A i \in DOMAIN group : NonDominated(i) => Returned(i)

\* C6 witness: find_multi_best returned with similarity=0 from a group with
\* two candidates that do not dominate each other and one that is dominated.
MultiBestKeptNonDominated ==
    /\ MultiReturned /\ similarity[1] = 0
    /\ \E i, j, k \in DOMAIN group :
          /\ i # j /\ NonDominated(i) /\ NonDominated(j)
          /\ Dominates(i, k)
          /\ Returned(i) /\ Returned(j)

\* The lines of a text (the text split at its line breaks)
RECURSIVE Lines(_)
Lines(t) ==
    LET breaks == {j \in 1..Len(t) : t[j] = NewLine}
    IN IF breaks = {} THEN <<t>>
       ELSE LET j == CHOOSE k \in breaks : \A l \in breaks : k <= l
            IN <<SubSeq(t, 1, j - 1)>> \o Lines(SubSeq(t, j + 1, Len(t)))

IsDirective(c) == \E P \in {"RA", "RM", "CM"} : c = Directive[P]

\* The value of the directive at position i: the characters after its space
\* up to the next space, line break or directive.
ValueEnd(t, i) ==
    LET stops == {j \in (i + 2)..Len(t) :
                     t[j] = Space \/ t[j] = NewLine \/ IsDirective(t[j])}
    IN IF stops = {} THEN Len(t)
       ELSE (CHOOSE j \in stops : \A k \in stops : j <= k) - 1

\* t with only the value of the first `*set_global P <value>` replaced
WithValue(t, P, value) ==
    LET i == FirstMatch(t, P)
    IN IF i = 0 \/ value = None THEN t
       ELSE SubSeq(t, 1, i + 1) \o value \o SubSeq(t, ValueEnd(t, i) + 1, Len(t))

MorphWritten == written # NotWritten

Overridden(P) == overrides[P] # None

\* Line l ends in the directive of an overridden parameter, a space and its
\* override, after a stretch that starts the original line o up to that
\* directive and space.
RewrittenFrom(l, o) ==
    \E P \in {"RA", "RM", "CM"} : \E i \in 1..(Len(o) - 1) :
        /\ Overridden(P)
        /\ o[i] = Directive[P] /\ o[i + 1] = Space
        /\ l = SubSeq(o, 1, i + 1) \o overrides[P]

OneDirectivePerLine(t) ==
    \A k \in DOMAIN Lines(t) :
        Cardinality({i \in DOMAIN Lines(t)[k] : IsDirective(Lines(t)[k][i])}) <= 1

\* The first line of t that holds the directive of P followed by a space
FirstLineOf(t, P) ==
    LET ls == Lines(t)
        hits == {k \in DOMAIN ls :
                    \E i \in 1..(Len(ls[k]) - 1) :
                        ls[k][i] = Directive[P] /\ ls[k][i + 1] = Space}
    IN IF hits = {} THEN 0 ELSE CHOOSE k \in hits : \A j \in hits : k <= j

BaselineSamples ==
    Amplitudes(SelectSeq(wave,
        LAMBDA s : s.x < baseline_before \/ s.x > baseline_after))
SteadySamples ==
    Amplitudes(SelectSeq(wave,
        LAMBDA s : s.x > steady_after /\ s.x < steady_before))

OffLevel(a) == Len(SelectSeq(a, LAMBDA v : v # Level))
AboveLevel(a) == Len(SelectSeq(a, LAMBDA v : v > Level))

\* The value is available and its center is c
CenterIs(value, c) == value.available /\ value.sum = c * value.n

\* C9: when some but fewer than 5% of the samples outside the stimulus
\* window are outliers and the others all equal v, Baseline.baseline is
\* available with center v.
BaselineRejectsOutliers ==
    (/\ baseline # NotComputed
     /\ OffLevel(BaselineSamples) >= 1
     /\ 20 * OffLevel(BaselineSamples) < Len(BaselineSamples))
        => CenterIs(baseline, Level)

\* C10: when a few samples (fewer than 5%) of the steady window are far above
\* v and the others all equal v, Steady.steady is available with center v
\* for steady_cutoff=95, and has a center above v for steady_cutoff=100.
SteadyOneSidedCutoff ==
    (/\ steady # NotComputed
     /\ AboveLevel(SteadySamples) = OffLevel(SteadySamples)
     /\ AboveLevel(SteadySamples) >= 1
     /\ 20 * AboveLevel(SteadySamples) < Len(SteadySamples))
        => IF steady_cutoff = 95 THEN CenterIs(steady, Level)
           ELSE steady.available /\ steady.sum > Level * steady.n

\* C1: no call of process_modification writes to a name that was on disk
\* already: no destination name is reused and no earlier clone overwritten.
NoNameReused ==
    \A i \in DOMAIN run.opened : ~run.opened[i].existed

\* C2: a call of process_modification, however it ends, leaves its source
\* conductance file and source morphology file as they were, and every file
\* it writes is one it created.
SourcesKeptWritesFresh ==
    /\ run.src_cond # << >> =>
          IsFile(fs, run.src_cond) /\ fs[run.src_cond] = fs_before[run.src_cond]
    /\ run.src_morph # << >> =>
          IsFile(fs, run.src_morph) /\ fs[run.src_morph] = fs_before[run.src_morph]
    /\ \A i \in DOMAIN run.opened : ~IsFile(fs_before, run.opened[i].path)

\* The half of C2 the code keeps: the sources are as they were.
SourcesKept ==
    /\ run.src_cond # << >> =>
          IsFile(fs, run.src_cond) /\ fs[run.src_cond] = fs_before[run.src_cond]
    /\ run.src_morph # << >> =>
          IsFile(fs, run.src_morph) /\ fs[run.src_morph] = fs_before[run.src_morph]

\* C11: for a falling curve of fewer than 5 samples, the empty curve
\* included, the falling-curve fit returns without raising a result whose
\* fit function is absent and whose amplitude and time constant are both
\* not available.
FallingFitDegrades ==
    (falling_curve_fit # NotFitted /\ ccut_size < MinFitSamples) =>
        /\ falling_curve_fit.raised = ""
        /\ falling_curve_fit.function = "None"
        /\ IsNaN(falling_curve_fit.amp.x) /\ IsNaN(falling_curve_fit.amp.dev)
        /\ IsNaN(falling_curve_fit.tau.x) /\ IsNaN(falling_curve_fit.tau.dev)

\* The branch for 5 samples or more returns a fit function and values.
FallingFitReturns ==
    (falling_curve_fit # NotFitted /\ ccut_size >= MinFitSamples) =>
        /\ falling_curve_fit.raised = ""
        /\ falling_curve_fit.function # "None"

PassesMask(j) == ~which.given \/ which.mask[j]
Partners(i, j) ==
    PassesMask(j) /\ Abs(sel_a[i].injection - sel_b[j].injection) < Tolerance

\* C12: _select pairs traces by injection amplitude: the two returned
\* collections have equal length, the i-th simulated and i-th measured trace
\* differ in injection by less than 1e-12 A, every pair of a simulated trace
\* and a measurement passing the mask within that tolerance appears exactly
\* once, and a measurement rejected by the mask or a trace without a partner
\* within tolerance never appears.
SelectPairsByInjection ==
    selected.done =>
        /\ Len(selected.a) = Len(selected.b)
        /\ \A k \in DOMAIN selected.a :
             /\ Abs(selected.a[k].injection - selected.b[k].injection) < Tolerance
             /\ \E i \in DOMAIN sel_a, j \in DOMAIN sel_b :
                  /\ selected.a[k] = sel_a[i] /\ selected.b[k] = sel_b[j]
                  /\ Partners(i, j)
        /\ \A i \in DOMAIN sel_a, j \in DOMAIN sel_b :
             Partners(i, j) =>
                Cardinality({k \in DOMAIN selected.a :
                    selected.a[k] = sel_a[i] /\ selected.b[k] = sel_b[j]}) = 1
        /\ \A j \in DOMAIN sel_b :
             ~PassesMask(j) => \A k \in DOMAIN selected.b : selected.b[k] # sel_b[j]

\* C12 witness: _select returned a pair 1e-13 A apart, left out a pair 1e-11 A
\* apart and left out a measurement within tolerance that the mask rejects.
SelectPairedAndRejected ==
    /\ selected.done
    /\ \E k \in DOMAIN selected.a :
         Abs(selected.a[k].injection - selected.b[k].injection) = 1
    /\ \E i \in DOMAIN sel_a, j \in DOMAIN sel_b :
         Abs(sel_a[i].injection - sel_b[j].injection) = 100
    /\ \E i \in DOMAIN sel_a, j \in DOMAIN sel_b :
         /\ ~PassesMask(j)
         /\ Abs(sel_a[i].injection - sel_b[j].injection) < Tolerance

NotAvailableOperand(rec) == IsVartype(rec) /\ EqualsNan(rec)
EmptyOperand(rec) == ~IsVartype(rec) /\ Len(rec.items) = 0
IsNotAvailable(d) == d.raised = "" /\ d.kind = "vartype" /\ IsNaN(d.items[1].x)
DegenerateOperands ==
    \/ NotAvailableOperand(reca) \/ NotAvailableOperand(recb)
    \/ EmptyOperand(reca) \/ EmptyOperand(recb)
IsDifference(d) ==
    /\ d.raised = ""
    /\ Len(d.items) = Len(reca.items)
    /\ \A k \in DOMAIN d.items :
         /\ d.items[k].x = reca.items[k].x - recb.items[k].x
         /\ d.items[k].dev * d.items[k].dev
               = recb.items[k].dev * recb.items[k].dev + min_dev * min_dev
         /\ recb.items[k].dev = 0 => d.items[k].dev = min_dev
         /\ min_dev > 0 => d.items[k].dev # 0

\* C13: sub_mes_dev never raises: it returns not-available exactly when
\* either operand is not-available or either collection is empty, and for
\* every other input, one available value-with-uncertainty included, the
\* pair (reca center - recb center, sqrt(recb spread^2 + min_dev^2)), whose
\* spread is min_dev for a measurement spread of 0 and never zero for
\* min_dev > 0.
SubMesDevNeverRaises ==
    difference # NotSubtracted =>
        /\ difference.raised = ""
        /\ IsNotAvailable(difference) <=> DegenerateOperands
        /\ ~DegenerateOperands => IsDifference(difference)

\* What the code keeps of C13: on two record arrays it returns not-available
\* when one is empty and the pair otherwise.
SubMesDevOnArrays ==
    (difference # NotSubtracted /\ ~IsVartype(reca) /\ ~IsVartype(recb)) =>
        /\ difference.raised = ""
        /\ IsNotAvailable(difference) <=> DegenerateOperands
        /\ ~DegenerateOperands => IsDifference(difference)

\* The filter a fitness function puts on the measurement traces
PassesFilter(f, t) ==
    CASE f = "response" -> t.injection <= ResponseLimit
      [] f \in {"rectification", "falling_curve_time"} -> t.injection <= HyperpolarizingLimit
      [] f \in {"charging_curve", "spike_latency"} -> t.spike_count >= 1
      [] f \in {"mean_isi", "isi_spread"} -> t.spike_count >= 2
      [] OTHER -> TRUE
SomeMatch(f) ==
    \E i \in DOMAIN fit_sim, j \in DOMAIN fit_meas :
        /\ PassesFilter(f, fit_meas[j])
        /\ Abs(fit_sim[i].injection - fit_meas[j].injection) < Tolerance

\* C14: every per-axis fitness function returns not-available (NaN), not a
\* finite score, whenever no simulated trace matches a measurement trace
\* under the function's filter; spike_count_fitness on collections without a
\* common injection returns not-available, not the perfect score 0.
NoMatchScoresNaN ==
    (evaluated # "none" /\ ~SomeMatch(evaluated)) => axis_score.kind = "nan"

\* What the code keeps of C14: every modelled function but spike_count_fitness
NoMatchScoresNaNButSpikeCount ==
    (evaluated \notin {"none", "spike_count"} /\ ~SomeMatch(evaluated)) =>
        axis_score.kind = "nan"

\* l[i..e] is an entry of key: the quoted key, blanks, a colon, blanks and a
\* quoted name, whose opening quote is at q
IsEntry(l, i, q, e, key) ==
    LET head == <<Quote>> \o key \o <<Quote>>
    IN /\ StartsWith(l, i, head)
       /\ i + Len(head) <= q /\ q + 1 < e /\ e <= Len(l)
       /\ \E c \in (i + Len(head))..(q - 1) :
            /\ l[c] = Colon
            /\ \A k \in ((i + Len(head))..(q - 1)) \ {c} : IsSpace(l[k])
       /\ l[q] = Quote /\ l[e] = Quote
       /\ \A k \in (q + 1)..(e - 1) : IsNameChar(l[k])
HasEntry(l, key) ==
    \E i, q, e \in DOMAIN l : IsEntry(l, i, q, e, key)

RECURSIVE EntriesRewritten(_, _, _, _)
EntriesRewritten(l, r, key, name) ==
    IF Len(l) = 0 THEN Len(r) = 0
    ELSE IF \E q, e \in DOMAIN l : IsEntry(l, 1, q, e, key)
    THEN \E q, e \in DOMAIN l :
            /\ IsEntry(l, 1, q, e, key)
            /\ StartsWith(r, 1, Replacement(key, name))
            /\ EntriesRewritten(SubSeq(l, e + 1, Len(l)),
                                SubSeq(r, Len(Replacement(key, name)) + 1, Len(r)),
                                key, name)
    ELSE /\ Len(r) > 0 /\ r[1] = l[1]
         /\ EntriesRewritten(Tail(l), Tail(r), key, name)

RECURSIVE AvailableSquares(_)
AvailableSquares(xs) ==
    IF Len(xs) = 0 THEN 0
    ELSE (IF IsNaN(Head(xs)) THEN 0 ELSE Head(xs) * Head(xs))
            + AvailableSquares(Tail(xs))

\* C16: without full, simple_combined_fitness returns
\* sqrt((sum over the available axes of score^2) / 11), a not-available axis
\* adding nothing to the sum and counting in the divisor; when every axis
\* has the same score s >= 0 the result is s.
CombinedIsRootMeanSquare ==
    combined.status = "root" =>
        /\ combined.size = NumAxes
        /\ combined.sum = AvailableSquares(axis_scores)
        /\ \A s \in 0..MaxScore :
             (\A a \in DOMAIN axis_scores : axis_scores[a] = s) =>
                 combined.sum = s * s * combined.size

\* What the code returns: the root of the mean of the fourth powers
CombinedIsRootMeanFourthPower ==
    combined.status = "root" =>
        /\ combined.size = NumAxes
        /\ combined.sum = AvailableSquares(
               [a \in DOMAIN axis_scores |-> Squared(axis_scores[a])])

\* The name the conductance file gives the neuron type, and the next-version
\* name of a morphology file
CloneMorphName ==
    clone_files[PathJoin(SaveDirOf(clone_dir), CondName)].morph_file[clone_ntype]
NextMorphName(name) ==
    IF name = <<"m", ".", "p">> THEN <<"m", "_", "V", "1", ".", "p">>
    ELSE <<"m", "_", "V", "2", ".", "p">>
CloneResolved == morph_clone # NotCloned /\ morph_clone.src # << >>
\* Where the clone belongs: beside the source under the next-version name when
\* the source was found in conductance_save, else conductance_save/<name>
CloneExpectedPath ==
    IF morph_clone.src = PathJoin(SaveDirOf(clone_dir), CloneMorphName)
    THEN PathJoin(SaveDirOf(clone_dir), NextMorphName(CloneMorphName))
    ELSE PathJoin(SaveDirOf(clone_dir), CloneMorphName)

\* C17: clone_and_change_morph_file writes the clone to the next-version name
\* beside the source if and only if the source was found in the
\* conductance_save subdirectory of the model directory, and to
\* conductance_save/<original name> otherwise, for every model directory
\* path, one that contains the text conductance_save included, and a path it
\* returns is the path it wrote.
CloneWritesWhereResolved ==
    (CloneResolved /\ Len(morph_clone.opened) = 1) =>
        /\ morph_clone.opened[1].path = CloneExpectedPath
        /\ ~IsRaise(morph_clone.result) => morph_clone.result = CloneExpectedPath

\* The file a call opens is the expected one whenever the path of the model
\* directory does not hold the text conductance_save.
CloneOpensWhereResolved ==
    (CloneResolved /\ Len(morph_clone.opened) = 1 /\ ~InConductanceSave(clone_dir)) =>
        morph_clone.opened[1].path = CloneExpectedPath

\* No call returns a path: each ends in an exception.
CloneNeverReturns ==
    morph_clone # NotCloned => IsRaise(morph_clone.result)

NsRan == nonsimilar # NotFiltered
NsKept == {nonsimilar[k] : k \in DOMAIN nonsimilar}
NsDropped == (DOMAIN ns_params) \ NsKept
\* the position of candidate c in the order by total squared score
NsRank(c) == CHOOSE k \in DOMAIN ns_order : ns_order[k] = c
NsTotal(c) == TotalOf(NanToInf(ns_scores[c]))
\* the normalized-parameter distance of candidates c and e is below similarity
NsCloser(c, e) == NormalizedCloser(ns_params, c, e, ns_similarity)

\* C18: in find_nonsimilar's result the best-ranked candidate (lowest total
\* squared score) is present, no two surviving candidates have a
\* normalized-parameter distance below similarity, and every dropped
\* candidate lies within similarity of a surviving candidate that ranks
\* better than it, so that a candidate dropped as a duplicate never causes
\* another to be dropped.
NonsimilarWellSeparated ==
    NsRan =>
        /\ ns_order[1] \in NsKept
        /\ \A c \in DOMAIN ns_params : NsTotal(ns_order[1]) <= NsTotal(c)
        /\ \A c, e \in NsKept : c # e => ~NsCloser(c, e)
        /\ \A c \in NsDropped :
             \E e \in NsKept : NsRank(e) < NsRank(c) /\ NsCloser(e, c)
        /\ \A k \in 1..(Len(nonsimilar) - 1) :
             NsRank(nonsimilar[k]) < NsRank(nonsimilar[k + 1])

\* C18 witness: a candidate was dropped as a duplicate of the best one, and a
\* candidate within similarity of the dropped one, but of no survivor ranked
\* before it, was kept.
NonsimilarDuplicateSparesNext ==
    /\ NsRan
    /\ \E c \in NsDropped, e \in NsKept :
         /\ NsCloser(ns_order[1], c)
         /\ NsRank(c) < NsRank(e)
         /\ NsCloser(c, e)

============================================================================
